---- MODULE Spec2Model ----
(***************************************************************************)
(* PreviewFlow: the preview build & lifecycle orchestrator.                *)
(*                                                                         *)
(* State: the preview table of the record store (db), the containers that *)
(* docker is running, the host ports bound by unrelated processes, the     *)
(* source trees on disk, one record per request handler holding its        *)
(* position (pc) and its local variables, the outcome that the last step   *)
(* gave back to a caller (response), the status event that it put on the   *)
(* transport (wire), the number of requests that may be in progress at     *)
(* the same time (slots), and the number of external events still to       *)
(* arrive (budget).                                                        *)
(*                                                                         *)
(* Every action is one continuation of an async handler: one access to the *)
(* record store, to docker or to the OS, together with the synchronous     *)
(* code that follows it up to the next await.  cloneRepo and the image     *)
(* build touch nothing that another request reads, so they are taken in    *)
(* the step of the update that precedes them.                              *)
(***************************************************************************)
EXTENDS Integers, Sequences, FiniteSets, TLC

VARIABLES db, containers, osBound, trees, hs, response, wire, slots, budget

vars == <<db, containers, osBound, trees, hs, response, wire, slots, budget>>

(* ------------------------------------------------------------------ *)
(* Bounds of the model                                                 *)
(* ------------------------------------------------------------------ *)

\* number of ports of each configured range that the model scans
PortSpan == 1

\* number of external events in one run (requests, webhook events, host
\* ports taken by unrelated processes) when requests overlap
MaxRequests == 2

\* the same when every request arrives after the one before it has returned
MaxSerialRequests == 3

(* ------------------------------------------------------------------ *)
(* Program constants                                                   *)
(* ------------------------------------------------------------------ *)

\* findAvailablePort(5000, 5999): first-time allocation
MinPort == 5000

\* findAvailablePort(4000, 4999): fallback when the recorded port is bound
FallbackMinPort == 4000

\* project.id.slice(0, 8)
ProjectIdShortLen == 8

\* buildNumber column default (preview.buildNumber || 1)
DefaultBuildNumber == 1

PrimaryPorts == MinPort .. (MinPort + PortSpan - 1)

FallbackPorts == FallbackMinPort .. (FallbackMinPort + PortSpan - 1)

Ports == PrimaryPorts \cup FallbackPorts

\* null / empty values of the nullable columns
NoPort == 0

NoName == << >>

NoUrl == << >>

NoLogs == << >>

(* ------------------------------------------------------------------ *)
(* Projects, users, previews                                           *)
(* ------------------------------------------------------------------ *)

Users == {"u1", "u2"}

\* a request without a valid bearer token
NoUser == "anonymous"

\* project rows: id (a cuid), owning user
Projects ==
  { [id |-> <<"c","k","A","1","x","y","z","0","q","r">>, userId |-> "u1", repo |-> "acme/web"],
    [id |-> <<"c","k","B","2","x","y","z","0","q","r">>, userId |-> "u2", repo |-> "acme/api"] }

PRNumbers == {7}

\* a preview row is identified by (project, prNumber)
PreviewIds == Projects \X PRNumbers

NoPreview == <<[id |-> << >>, userId |-> "", repo |-> ""], 0>>

Handlers == {1, 2}

(* ------------------------------------------------------------------ *)
(* Container naming                                                    *)
(* ------------------------------------------------------------------ *)

UpperChars == <<"A","B","C","D","E","F","G","H","I","J","K","L","M",
                "N","O","P","Q","R","S","T","U","V","W","X","Y","Z">>

LowerChars == <<"a","b","c","d","e","f","g","h","i","j","k","l","m",
                "n","o","p","q","r","s","t","u","v","w","x","y","z">>

DigitChars == <<"0","1","2","3","4","5","6","7","8","9">>

\* String.prototype.toLowerCase on one character
ToLowerCase(c) ==
  IF \E i \in 1..26 : UpperChars[i] = c
    THEN LowerChars[CHOOSE i \in 1..26 : UpperChars[i] = c]
    ELSE c

\* the character class [a-z0-9\-]
NameChar(c) ==
  \/ \E i \in 1..26 : LowerChars[i] = c
  \/ \E i \in 1..10 : DigitChars[i] = c
  \/ c = "-"

\* base.toLowerCase().replace(/[^a-z0-9\-]/g, "-")
Sanitize(s) ==
  [i \in 1..Len(s) |->
     IF NameChar(ToLowerCase(s[i])) THEN ToLowerCase(s[i]) ELSE "-"]

RECURSIVE DecimalString(_)
\* template-literal conversion of a non-negative integer
DecimalString(n) ==
  IF n < 10 THEN <<DigitChars[n + 1]>>
  ELSE DecimalString(n \div 10) \o <<DigitChars[(n % 10) + 1]>>

\* s.slice(0, n)
Slice(s, n) == SubSeq(s, 1, IF Len(s) < n THEN Len(s) ELSE n)

generateContainerNameNoBuild(project, prNumber, buildNumber) ==
  Sanitize(<<"p","r","e","v","i","e","w","-","p">>
           \o Slice(project.id, ProjectIdShortLen)
           \o <<"-","p","r">> \o DecimalString(prNumber))

generateContainerName(project, prNumber, buildNumber) ==
  Sanitize(<<"p","r","e","v","i","e","w","-","p">>
           \o Slice(project.id, ProjectIdShortLen)
           \o <<"-","p","r">> \o DecimalString(prNumber)
           \o <<"-","b">> \o DecimalString(buildNumber))

\* docker's name filter: the container name contains the pattern
NameMatches(pattern, name) ==
  \E i \in 0..(Len(name) - Len(pattern)) :
     SubSeq(name, i + 1, i + Len(pattern)) = pattern

(* ------------------------------------------------------------------ *)
(* Record store and environment                                        *)
(* ------------------------------------------------------------------ *)

\* a row that has not been created yet, with the column defaults
NoRow ==
  [exists |-> FALSE, status |-> "none", url |-> NoUrl, port |-> NoPort,
   containerName |-> NoName, buildNumber |-> DefaultBuildNumber,
   buildLogs |-> NoLogs, buildCompletedAt |-> FALSE]

\* prisma.preview.update({ where: { id }, data })
Update(id, data) ==
  [db EXCEPT ![id] = [f \in DOMAIN db[id] |->
                        IF f \in DOMAIN data THEN data[f] ELSE db[id][f]]]

\* `http://localhost:${port}`
UrlOf(port) == <<"http://localhost:", port>>

\* docker rm -f <name>: removes the container of exactly that name
DockerRm(name) == {c \in containers : c.name # name}

\* net.createServer().listen(port): fails when anything holds the port
isPortFree(port) ==
  /\ port \notin osBound
  /\ \A c \in containers : c.port # port

portReservedInDB(port) ==
  \E id \in PreviewIds :
     /\ db[id].exists
     /\ db[id].port = port
     /\ db[id].status # "deleted"

(* ------------------------------------------------------------------ *)
(* Request handlers                                                    *)
(* ------------------------------------------------------------------ *)

\* the locals of a handler that is not running.  bn0 and st0 are the
\* buildNumber and the status of the row that the rebuild route read when
\* the request arrived.  raced records, for a
\* delete or PR-close, that a build of its preview was running when it
\* arrived and, for a build, that such a request arrived while it ran
Idle ==
  [pc |-> "idle", op |-> "none", pv |-> NoPreview,
   name |-> NoName, port |-> NoPort,
   first |-> NoPort, cursor |-> NoPort, last |-> NoPort,
   logs |-> NoLogs, err |-> "none", bn0 |-> 0, st0 |-> "none",
   raced |-> FALSE]

\* the step returned nothing to a caller
NoResponse == [res |-> "none", err |-> "none"]

\* nothing was published
NoEvent == "none"

\* a request is served by the first handler that is not running
Accepts(h) ==
  /\ budget > 0
  /\ h <= slots
  /\ hs[h].pc = "idle"
  /\ \A g \in Handlers : g < h => hs[g].pc # "idle"

Goto(h, label) == hs' = [hs EXCEPT ![h].pc = label]

\* the handler returns or throws: the status or outcome, and the error behind it
Return(h, result, error) ==
  /\ hs' = [hs EXCEPT ![h] = Idle]
  /\ response' = [res |-> result, err |-> error]

Project(id) == id[1]

PrNumber(id) == id[2]

\* the handlers that are building the preview
Builders(id) ==
  {g \in Handlers : hs[g].pc # "idle" /\ hs[g].pv = id
                    /\ hs[g].op \in {"sync", "rebuild"}}

Init ==
  /\ db = [id \in PreviewIds |-> NoRow]
  /\ containers = {}
  /\ osBound = {}
  /\ trees = {}
  /\ hs = [h \in Handlers |-> Idle]
  /\ response = NoResponse
  /\ wire = NoEvent
  /\ \/ /\ slots = Cardinality(Handlers)
        /\ budget = MaxRequests
     \/ /\ slots = 1
        /\ budget = MaxSerialRequests

\* getIO().emit("preview-status-update", ...): ioOk = FALSE is a throwing transport
Emit(ioOk, status) == wire' = IF ioOk THEN status ELSE NoEvent

\* delete and PR-close start here once the row is found: the container name
\* is read and removeContainer is started when there is one
StartRemoval(h, op, id) ==
  hs' = [g \in Handlers |->
    IF g = h
      THEN [Idle EXCEPT !.op = op, !.pv = id,
                        !.name = db[id].containerName,
                        !.raced = (Builders(id) # {}),
                        !.pc = IF db[id].containerName # NoName
                                 THEN "rm" ELSE "mark"]
    ELSE IF g \in Builders(id) THEN [hs[g] EXCEPT !.raced = TRUE]
    ELSE hs[g]]

(* ---------------- POST /preview/:id/delete ---------------- *)

\* the delete route without its ownership check
DeleteRequestNoOwnerCheck(h, id, user) ==
  /\ Accepts(h)
  /\ budget' = budget - 1
  /\ IF user = NoUser THEN Return(h, "401", "Missing token")
     ELSE IF ~db[id].exists THEN Return(h, "404", "Preview not found")
     ELSE /\ StartRemoval(h, "delete", id)
          /\ response' = NoResponse
  /\ wire' = NoEvent
  /\ UNCHANGED <<db, containers, osBound, trees, slots>>

\* auth, findUnique, the 404 and 403 returns
DeleteRequest(h, id, user) ==
  /\ Accepts(h)
  /\ budget' = budget - 1
  /\ IF user = NoUser THEN Return(h, "401", "Missing token")
     ELSE IF ~db[id].exists THEN Return(h, "404", "Preview not found")
     ELSE IF Project(id).userId # user THEN Return(h, "403", "Not allowed")
     ELSE /\ StartRemoval(h, "delete", id)
          /\ response' = NoResponse
  /\ wire' = NoEvent
  /\ UNCHANGED <<db, containers, osBound, trees, slots>>

DeleteRemove(h) ==
  /\ hs[h].pc = "rm" /\ hs[h].op = "delete"
  /\ containers' = DockerRm(hs[h].name)
  /\ Goto(h, "mark")
  /\ wire' = NoEvent
  /\ response' = NoResponse
  /\ UNCHANGED <<db, osBound, trees, slots, budget>>

DeleteMark(h) ==
  /\ hs[h].pc = "mark" /\ hs[h].op = "delete"
  /\ db' = Update(hs[h].pv, [status |-> "deleted", url |-> NoUrl,
                             containerName |-> NoName, buildCompletedAt |-> TRUE])
  /\ Goto(h, "respond")
  /\ wire' = NoEvent
  /\ response' = NoResponse
  /\ UNCHANGED <<containers, osBound, trees, slots, budget>>

\* findUnique, emit, res.json; a throwing emit answers 500
DeleteRespond(h) ==
  /\ hs[h].pc = "respond" /\ hs[h].op = "delete"
  /\ \E ioOk \in BOOLEAN :
       /\ Emit(ioOk, db[hs[h].pv].status)
       /\ IF ioOk THEN Return(h, "200", "none") ELSE Return(h, "500", "emit")
  /\ UNCHANGED <<db, containers, osBound, trees, slots, budget>>

(* ---------------- handlePRClosed ---------------- *)

ClosedEvent(h, id) ==
  /\ Accepts(h)
  /\ budget' = budget - 1
  /\ IF ~db[id].exists THEN Return(h, "returned", "none")
     ELSE /\ StartRemoval(h, "closed", id)
          /\ response' = NoResponse
  /\ wire' = NoEvent
  /\ UNCHANGED <<db, containers, osBound, trees, slots>>

ClosedRemove(h) ==
  /\ hs[h].pc = "rm" /\ hs[h].op = "closed"
  /\ containers' = DockerRm(hs[h].name)
  /\ Goto(h, "mark")
  /\ wire' = NoEvent
  /\ response' = NoResponse
  /\ UNCHANGED <<db, osBound, trees, slots, budget>>

\* the update and the emit, which is not guarded
ClosedMark(h) ==
  /\ hs[h].pc = "mark" /\ hs[h].op = "closed"
  /\ db' = Update(hs[h].pv, [status |-> "deleted", url |-> NoUrl])
  /\ \E ioOk \in BOOLEAN :
       /\ Emit(ioOk, "deleted")
       /\ IF ioOk THEN Return(h, "returned", "none") ELSE Return(h, "threw", "emit")
  /\ UNCHANGED <<containers, osBound, trees, slots, budget>>

(* ---------------- POST /preview/:id/rebuild ---------------- *)

RebuildRequest(h, id, user) ==
  /\ Accepts(h)
  /\ budget' = budget - 1
  /\ IF user = NoUser THEN Return(h, "401", "Missing token")
     ELSE IF ~db[id].exists THEN Return(h, "404", "Preview not found")
     ELSE IF Project(id).userId # user THEN Return(h, "403", "Not allowed")
     ELSE /\ hs' = [hs EXCEPT ![h] =
               [Idle EXCEPT !.op = "rebuild", !.pv = id,
                            !.name = db[id].containerName,
                            !.bn0 = db[id].buildNumber,
                            !.st0 = db[id].status,
                            !.pc = IF db[id].containerName # NoName
                                     THEN "rm" ELSE "mark"]]
          /\ response' = NoResponse
  /\ wire' = NoEvent
  /\ UNCHANGED <<db, containers, osBound, trees, slots>>

RebuildRemove(h) ==
  /\ hs[h].pc = "rm" /\ hs[h].op = "rebuild"
  /\ containers' = DockerRm(hs[h].name)
  /\ Goto(h, "mark")
  /\ wire' = NoEvent
  /\ response' = NoResponse
  /\ UNCHANGED <<db, osBound, trees, slots, budget>>

\* the update to building, the emit and cloneRepo; a throwing emit and a
\* failing clone reach the outer catch
RebuildMark(h) ==
  /\ hs[h].pc = "mark" /\ hs[h].op = "rebuild"
  /\ db' = Update(hs[h].pv, [status |-> "building", url |-> NoUrl,
                             buildCompletedAt |-> FALSE])
  /\ \E ioOk \in BOOLEAN, cloneOk \in BOOLEAN :
       /\ ~ioOk => cloneOk
       /\ Emit(ioOk, "building")
       /\ IF ioOk /\ cloneOk
            THEN /\ Goto(h, "b_mark")
                 /\ trees' = trees \cup {h}
                 /\ response' = NoResponse
            ELSE /\ Return(h, "500", IF ioOk THEN "clone" ELSE "emit")
                 /\ trees' = trees
  /\ UNCHANGED <<containers, osBound, slots, budget>>

(* ---------------- handlePROpenOrSync ---------------- *)

\* the upsert, the emit and cloneRepo, all outside the try block
SyncEvent(h, id) ==
  /\ Accepts(h)
  /\ budget' = budget - 1
  /\ db' = IF db[id].exists
             THEN Update(id, [status |-> "building"])
             ELSE [db EXCEPT ![id] = [NoRow EXCEPT !.exists = TRUE,
                                                   !.status = "building"]]
  /\ \E ioOk \in BOOLEAN, cloneOk \in BOOLEAN :
       /\ ~ioOk => cloneOk
       /\ Emit(ioOk, "building")
       /\ IF ioOk /\ cloneOk
            THEN /\ hs' = [hs EXCEPT ![h] =
                      [Idle EXCEPT !.op = "sync", !.pv = id, !.pc = "b_mark"]]
                 /\ trees' = trees \cup {h}
                 /\ response' = NoResponse
            ELSE /\ Return(h, "threw", IF ioOk THEN "clone" ELSE "emit")
                 /\ trees' = trees
  /\ UNCHANGED <<containers, osBound, slots>>

(* ---------------- buildPreview ---------------- *)

\* the MARK BUILD START update
BuildMark(h) ==
  /\ hs[h].pc = "b_mark"
  /\ db' = Update(hs[h].pv, [status |-> "building"])
  /\ Goto(h, "b_load")
  /\ wire' = NoEvent
  /\ response' = NoResponse
  /\ UNCHANGED <<containers, osBound, trees, slots, budget>>

\* findUnique, then the name for the buildNumber that was read
BuildLoad(h) ==
  /\ hs[h].pc = "b_load"
  /\ LET preview == db[hs[h].pv] IN
     hs' = [hs EXCEPT ![h] =
       [hs[h] EXCEPT !.name = generateContainerName(Project(hs[h].pv),
                                 PrNumber(hs[h].pv), preview.buildNumber),
                     !.port = preview.port,
                     !.pc = "b_stale"]]
  /\ wire' = NoEvent
  /\ response' = NoResponse
  /\ UNCHANGED <<db, containers, osBound, trees, slots, budget>>

\* removeContainerIfExists: every container the name filter selects
removeContainerIfExists(containerName) ==
  {c \in containers : ~NameMatches(containerName, c.name)}

\* the last port of the scanned range, cut down to PortSpan ports
LastPort(minPort) == minPort + PortSpan - 1

BuildRemoveStale(h) ==
  /\ hs[h].pc = "b_stale"
  /\ containers' = removeContainerIfExists(hs[h].name)
  /\ hs' = [hs EXCEPT ![h] =
       IF hs[h].port = NoPort
         THEN [hs[h] EXCEPT !.first = MinPort, !.cursor = MinPort,
                            !.last = LastPort(MinPort), !.pc = "fp_db1"]
         ELSE [hs[h] EXCEPT !.pc = "b_isfree"]]
  /\ wire' = NoEvent
  /\ response' = NoResponse
  /\ UNCHANGED <<db, osBound, trees, slots, budget>>

\* the loop running one port past maxPort
NextCandidatePastEnd(h) ==
  IF hs[h].cursor <= hs[h].last
    THEN [hs[h] EXCEPT !.cursor = hs[h].cursor + 1, !.pc = "fp_db1"]
    ELSE [hs[h] EXCEPT !.cursor = NoPort,
                       !.err = "No free ports available", !.pc = "b_catch"]

\* `continue` of findAvailablePort's loop; past the range it throws.  first
\* and last are minPort and maxPort of the call
NextCandidate(h) ==
  IF hs[h].cursor < hs[h].last
    THEN [hs[h] EXCEPT !.cursor = hs[h].cursor + 1, !.pc = "fp_db1"]
    ELSE [hs[h] EXCEPT !.cursor = NoPort,
                       !.err = "No free ports available", !.pc = "b_catch"]

FindPortReserved(h) ==
  /\ hs[h].pc = "fp_db1"
  /\ hs' = [hs EXCEPT ![h] =
       IF portReservedInDB(hs[h].cursor) THEN NextCandidate(h)
       ELSE [hs[h] EXCEPT !.pc = "fp_os"]]
  /\ wire' = NoEvent
  /\ response' = NoResponse
  /\ UNCHANGED <<db, containers, osBound, trees, slots, budget>>

\* the scan without the bind test on the host
FindPortBindUnchecked(h) ==
  /\ hs[h].pc = "fp_os"
  /\ hs' = [hs EXCEPT ![h] = [hs[h] EXCEPT !.pc = "fp_db2"]]
  /\ wire' = NoEvent
  /\ response' = NoResponse
  /\ UNCHANGED <<db, containers, osBound, trees, slots, budget>>

FindPortBind(h) ==
  /\ hs[h].pc = "fp_os"
  /\ hs' = [hs EXCEPT ![h] =
       IF ~isPortFree(hs[h].cursor) THEN NextCandidate(h)
       ELSE [hs[h] EXCEPT !.pc = "fp_db2"]]
  /\ wire' = NoEvent
  /\ response' = NoResponse
  /\ UNCHANGED <<db, containers, osBound, trees, slots, budget>>

FindPortRecheck(h) ==
  /\ hs[h].pc = "fp_db2"
  /\ hs' = [hs EXCEPT ![h] =
       IF portReservedInDB(hs[h].cursor) THEN NextCandidate(h)
       ELSE [hs[h] EXCEPT !.port = hs[h].cursor, !.cursor = NoPort,
                          !.pc = "b_saveport"]]
  /\ wire' = NoEvent
  /\ response' = NoResponse
  /\ UNCHANGED <<db, containers, osBound, trees, slots, budget>>

\* the allocated port is used but not written to the row
BuildSavePortUnsaved(h) ==
  /\ hs[h].pc = "b_saveport"
  /\ db' = db
  /\ hs' = [hs EXCEPT ![h] =
       [hs[h] EXCEPT !.first = NoPort, !.last = NoPort, !.pc = "b_incr"]]
  /\ wire' = NoEvent
  /\ response' = NoResponse
  /\ UNCHANGED <<containers, osBound, trees, slots, budget>>

BuildSavePort(h) ==
  /\ hs[h].pc = "b_saveport"
  /\ db' = Update(hs[h].pv, [port |-> hs[h].port])
  /\ hs' = [hs EXCEPT ![h] =
       [hs[h] EXCEPT !.first = NoPort, !.last = NoPort, !.pc = "b_incr"]]
  /\ wire' = NoEvent
  /\ response' = NoResponse
  /\ UNCHANGED <<containers, osBound, trees, slots, budget>>

\* a recorded port is reused when it is free on the OS
BuildRevalidate(h) ==
  /\ hs[h].pc = "b_isfree"
  /\ hs' = [hs EXCEPT ![h] =
       IF isPortFree(hs[h].port) THEN [hs[h] EXCEPT !.pc = "b_incr"]
       ELSE [hs[h] EXCEPT !.first = FallbackMinPort,
                          !.cursor = FallbackMinPort,
                          !.last = LastPort(FallbackMinPort),
                          !.pc = "fp_db1"]]
  /\ wire' = NoEvent
  /\ response' = NoResponse
  /\ UNCHANGED <<db, containers, osBound, trees, slots, budget>>

\* the update that persists containerName without the increment
BuildIncrementNameOnly(h) ==
  /\ hs[h].pc = "b_incr"
  /\ db' = Update(hs[h].pv, [containerName |-> hs[h].name])
  /\ \E ok \in BOOLEAN :
       hs' = [hs EXCEPT ![h] =
         IF ok
           THEN [hs[h] EXCEPT !.logs = <<"> docker build", "build output",
                                         "> docker run">>,
                              !.pc = "b_run"]
           ELSE [hs[h] EXCEPT !.logs = <<"> docker build", "build output">>,
                              !.err = "docker build failed", !.pc = "b_catch"]]
  /\ wire' = NoEvent
  /\ response' = NoResponse
  /\ UNCHANGED <<containers, osBound, trees, slots, budget>>

\* persist containerName, buildNumber: { increment: 1 }; then the image
\* build, run(docker build), whose non-zero exit code rejects
BuildIncrement(h) ==
  /\ hs[h].pc = "b_incr"
  /\ db' = Update(hs[h].pv, [containerName |-> hs[h].name,
                             buildNumber |-> db[hs[h].pv].buildNumber + 1])
  /\ \E ok \in BOOLEAN :
       hs' = [hs EXCEPT ![h] =
         IF ok
           THEN [hs[h] EXCEPT !.logs = <<"> docker build", "build output",
                                         "> docker run">>,
                              !.pc = "b_run"]
           ELSE [hs[h] EXCEPT !.logs = <<"> docker build", "build output">>,
                              !.err = "docker build failed", !.pc = "b_catch"]]
  /\ wire' = NoEvent
  /\ response' = NoResponse
  /\ UNCHANGED <<containers, osBound, trees, slots, budget>>

\* docker starts the container when the name is unused and the host port is free
CanStart(name, port) ==
  /\ \A c \in containers : c.name # name
  /\ isPortFree(port)

\* run(docker run -d --name containerName -p assignedPort:80)
DockerRun(h) ==
  /\ hs[h].pc = "b_run"
  /\ \E ok \in BOOLEAN :
       IF ok /\ CanStart(hs[h].name, hs[h].port)
         THEN /\ containers' = containers \cup
                     {[name |-> hs[h].name, port |-> hs[h].port]}
              /\ hs' = [hs EXCEPT ![h] =
                   [hs[h] EXCEPT !.logs = Append(hs[h].logs, "run output"),
                                 !.pc = "b_live"]]
         ELSE /\ containers' = containers
              /\ hs' = [hs EXCEPT ![h] =
                   [hs[h] EXCEPT !.logs = Append(hs[h].logs, "run output"),
                                 !.err = "docker run failed", !.pc = "b_catch"]]
  /\ wire' = NoEvent
  /\ response' = NoResponse
  /\ UNCHANGED <<db, osBound, trees, slots, budget>>

\* status live is persisted and buildPreview returns the url to its caller:
\* handlePROpenOrSync removes the tree and emits inside its try block (a
\* throwing emit runs its catch block, which emits again and rethrows);
\* the rebuild route removes the tree and goes on to read the row back
BuildLive(h) ==
  /\ hs[h].pc = "b_live"
  /\ db' = Update(hs[h].pv, [status |-> "live", url |-> UrlOf(hs[h].port),
                             buildLogs |-> hs[h].logs, buildCompletedAt |-> TRUE])
  /\ trees' = trees \ {h}
  /\ IF hs[h].op = "sync"
       THEN \E ioOk \in BOOLEAN, ioOk2 \in BOOLEAN :
              /\ ioOk => ioOk2
              /\ IF ioOk THEN Emit(TRUE, "live") ELSE Emit(ioOk2, "error")
              /\ IF ioOk THEN Return(h, "returned", "none")
                 ELSE Return(h, "threw", "emit")
       ELSE /\ Goto(h, "respond")
            /\ wire' = NoEvent
            /\ response' = NoResponse
  /\ UNCHANGED <<containers, osBound, slots, budget>>

\* findUnique, emit, res.json({ ok: true, url })
RebuildRespond(h) ==
  /\ hs[h].pc = "respond" /\ hs[h].op = "rebuild"
  /\ \E ioOk \in BOOLEAN :
       /\ Emit(ioOk, db[hs[h].pv].status)
       /\ IF ioOk THEN Return(h, "200", "none") ELSE Return(h, "500", "emit")
  /\ UNCHANGED <<db, containers, osBound, trees, slots, budget>>

\* the catch block without port: null
BuildCatchKeepsPort(h) ==
  /\ hs[h].pc = "b_catch"
  /\ db' = Update(hs[h].pv, [status |-> "error",
                             buildLogs |-> hs[h].logs \o <<"ERROR:", hs[h].err>>,
                             buildCompletedAt |-> TRUE])
  /\ IF hs[h].op = "sync"
       THEN /\ trees' = trees \ {h}
            /\ \E ioOk \in BOOLEAN :
                 /\ Emit(ioOk, "error")
                 /\ Return(h, "threw", IF ioOk THEN hs[h].err ELSE "emit")
       ELSE /\ trees' = trees
            /\ hs' = [hs EXCEPT ![h] =
                 [hs[h] EXCEPT !.first = NoPort, !.last = NoPort,
                               !.pc = "r_err_mark"]]
            /\ wire' = NoEvent
            /\ response' = NoResponse
  /\ UNCHANGED <<containers, osBound, slots, budget>>

\* the catch block of buildPreview, which rethrows to its caller:
\* handlePROpenOrSync removes the tree, emits and rethrows; the rebuild
\* route goes on to its own error update
BuildCatch(h) ==
  /\ hs[h].pc = "b_catch"
  /\ db' = Update(hs[h].pv, [status |-> "error",
                             buildLogs |-> hs[h].logs \o <<"ERROR:", hs[h].err>>,
                             buildCompletedAt |-> TRUE, port |-> NoPort])
  /\ IF hs[h].op = "sync"
       THEN /\ trees' = trees \ {h}
            /\ \E ioOk \in BOOLEAN :
                 /\ Emit(ioOk, "error")
                 /\ Return(h, "threw", IF ioOk THEN hs[h].err ELSE "emit")
       ELSE /\ trees' = trees
            /\ hs' = [hs EXCEPT ![h] =
                 [hs[h] EXCEPT !.first = NoPort, !.last = NoPort,
                               !.pc = "r_err_mark"]]
            /\ wire' = NoEvent
            /\ response' = NoResponse
  /\ UNCHANGED <<containers, osBound, slots, budget>>

RebuildErrorMark(h) ==
  /\ hs[h].pc = "r_err_mark"
  /\ db' = Update(hs[h].pv, [status |-> "error", buildCompletedAt |-> TRUE,
                             url |-> NoUrl, containerName |-> NoName])
  /\ Goto(h, "r_err_read")
  /\ wire' = NoEvent
  /\ response' = NoResponse
  /\ UNCHANGED <<containers, osBound, trees, slots, budget>>

\* findUnique, emit, rmSync, 500 "Build failed"; a throwing emit leaves
\* through the outer catch, before the tree is removed
RebuildErrorRespond(h) ==
  /\ hs[h].pc = "r_err_read"
  /\ \E ioOk \in BOOLEAN :
       /\ Emit(ioOk, db[hs[h].pv].status)
       /\ trees' = IF ioOk THEN trees \ {h} ELSE trees
       /\ Return(h, "500", IF ioOk THEN hs[h].err ELSE "emit")
  /\ UNCHANGED <<db, containers, osBound, slots, budget>>

(* ---------------- environment ---------------- *)

\* an unrelated process binds a free host port
OSBind(p) ==
  /\ budget > 0
  /\ budget' = budget - 1
  /\ isPortFree(p)
  /\ osBound' = osBound \cup {p}
  /\ wire' = NoEvent
  /\ response' = NoResponse
  /\ UNCHANGED <<db, containers, trees, hs, slots>>

\* an unrelated process releases its port
OSRelease(p) ==
  /\ p \in osBound
  /\ osBound' = osBound \ {p}
  /\ wire' = NoEvent
  /\ response' = NoResponse
  /\ UNCHANGED <<db, containers, trees, hs, slots, budget>>

Next ==
  \/ \E h \in Handlers, id \in PreviewIds, user \in Users \cup {NoUser} :
       \/ DeleteRequest(h, id, user)
       \/ RebuildRequest(h, id, user)
  \/ \E h \in Handlers, id \in PreviewIds :
       \/ ClosedEvent(h, id)
       \/ SyncEvent(h, id)
  \/ \E h \in Handlers :
       \/ DeleteRemove(h) \/ DeleteMark(h) \/ DeleteRespond(h)
       \/ ClosedRemove(h) \/ ClosedMark(h)
       \/ RebuildRemove(h) \/ RebuildMark(h)
       \/ BuildMark(h) \/ BuildLoad(h) \/ BuildRemoveStale(h)
       \/ FindPortReserved(h) \/ FindPortBind(h) \/ FindPortRecheck(h)
       \/ BuildSavePort(h) \/ BuildRevalidate(h) \/ BuildIncrement(h)
       \/ DockerRun(h) \/ BuildLive(h) \/ RebuildRespond(h)
       \/ BuildCatch(h) \/ RebuildErrorMark(h) \/ RebuildErrorRespond(h)
  \/ \E p \in Ports : OSBind(p) \/ OSRelease(p)

Spec == Init /\ [][Next]_vars

(* ------------------------------------------------------------------ *)
(* Vocabulary of the properties                                        *)
(* ------------------------------------------------------------------ *)

\* a row that exists and is not deleted
Active(id) == db[id].exists /\ db[id].status # "deleted"

\* the positions inside buildPreview
BuildPcs ==
  {"b_mark", "b_load", "b_stale", "fp_db1", "fp_os", "fp_db2",
   "b_saveport", "b_isfree", "b_incr", "b_run", "b_live", "b_catch"}

\* the handlers whose build attempt of the preview is in flight
Attempts(id) == {h \in Handlers : hs[h].pv = id /\ hs[h].pc \in BuildPcs}

\* what every container name of the preview starts with
NamePrefix(id) ==
  Sanitize(<<"p","r","e","v","i","e","w","-","p">>
           \o Slice(Project(id).id, ProjectIdShortLen)
           \o <<"-","p","r">> \o DecimalString(PrNumber(id)) \o <<"-","b">>)

\* the errors of a build attempt: clone, port allocation, image build, run
BuildFailures ==
  {"clone", "No free ports available", "docker build failed", "docker run failed"}

\* handler h returns in this step
Returns(h) == hs[h].pc # "idle" /\ hs'[h].pc = "idle"

\* after this step no request on the preview of h is in progress
QuietAfter(h) ==
  \A g \in Handlers : hs'[g].pc = "idle" \/ hs'[g].pv # hs[h].pv

(* ------------------------------------------------------------------ *)
(* Properties                                                          *)
(* ------------------------------------------------------------------ *)

\* C1: no two previews that are not deleted hold the same non-empty port
C1_PortsUnique ==
  \A a \in PreviewIds, b \in PreviewIds :
     (a # b /\ Active(a) /\ Active(b) /\ db[a].port # NoPort)
        => db[a].port # db[b].port

\* C2: a preview whose status is live has a url and a port
C2_LiveHasUrlAndPort ==
  \A id \in PreviewIds :
     (db[id].exists /\ db[id].status = "live")
        => (db[id].url # NoUrl /\ db[id].port # NoPort)

\* C3: the update of a delete request or of a PR-close event leaves the row
\* deleted with url, port and containerName empty, and the container whose
\* name the handler read is not running
C3_DeleteClearsEverything ==
  [][\A h \in Handlers :
       (hs[h].op \in {"delete", "closed"} /\ hs[h].pc = "mark"
          /\ hs'[h].pc # "mark")
         => /\ db'[hs[h].pv].status = "deleted"
            /\ db'[hs[h].pv].url = NoUrl
            /\ db'[hs[h].pv].port = NoPort
            /\ db'[hs[h].pv].containerName = NoName
            /\ \A c \in containers' : c.name # hs[h].name]_vars

\* C4: a preview is live exactly when url and port are both set, and deleted
\* exactly when both are empty
C4_StatusIffUrlAndPort ==
  \A id \in PreviewIds :
     db[id].exists =>
       /\ (db[id].status = "live")
            <=> (db[id].url # NoUrl /\ db[id].port # NoPort)
       /\ (db[id].status = "deleted")
            <=> (db[id].url = NoUrl /\ db[id].port = NoPort)

\* C5: when a rebuild call returns, buildNumber is one more than it was
\* when the call read the row
C5_RebuildIncrementsOnce ==
  [][\A h \in Handlers :
       (hs[h].op = "rebuild" /\ Returns(h))
         => db'[hs[h].pv].buildNumber = hs[h].bn0 + 1]_vars

\* C6: a deleted preview stays deleted and no build of it is started
C6_DeletedIsTerminal ==
  [][\A id \in PreviewIds :
       (db[id].exists /\ db[id].status = "deleted")
         => /\ db'[id].status = "deleted"
            /\ \A g \in Handlers :
                 (hs'[g].pc # "idle" /\ hs'[g].pv = id
                    /\ hs'[g].op \in {"sync", "rebuild"})
                   => hs[g].pc # "idle"]_vars

\* C7: at most one build attempt of a preview is in flight
C7_OneAttemptPerPreview ==
  \A id \in PreviewIds : Cardinality(Attempts(id)) <= 1

\* C8: when a delete or PR-close met a build of the same preview and the
\* last of the two returns, the preview is deleted, holds no port and has
\* no container running
C8_DeleteWinsOverBuild ==
  [][\A h \in Handlers :
       (hs[h].raced /\ Returns(h) /\ QuietAfter(h))
         => /\ db'[hs[h].pv].status = "deleted"
            /\ db'[hs[h].pv].port = NoPort
            /\ \A c \in containers' :
                 ~NameMatches(NamePrefix(hs[h].pv), c.name)]_vars

\* C9: a build request that returns because the clone, the port allocation,
\* the image build or the container run failed leaves the status error
C9_FailedBuildEndsInError ==
  [][/\ \A h \in Handlers :
          (hs[h].op \in {"sync", "rebuild"} /\ Returns(h) /\ QuietAfter(h)
             /\ response'.err \in BuildFailures)
            => db'[hs[h].pv].status = "error"
     /\ \A h \in Handlers, id \in PreviewIds :
          (SyncEvent(h, id) /\ hs'[h].pc = "idle" /\ response'.err = "clone"
             /\ \A g \in Handlers : hs[g].pc = "idle" \/ hs[g].pv # id)
            => db'[id].status = "error"]_vars

\* C10: a rebuild or delete request for a preview that does not exist or
\* that belongs to another user's project changes no row, removes no
\* container, publishes no event and starts nothing
C10_RejectedChangesNothing ==
  [][\A h \in Handlers, id \in PreviewIds, user \in Users :
       (/\ RebuildRequest(h, id, user) \/ DeleteRequest(h, id, user)
        /\ ~db[id].exists \/ Project(id).userId # user)
         => /\ db' = db
            /\ containers' = containers
            /\ trees' = trees
            /\ wire' = NoEvent
            /\ hs' = hs
            /\ response'.res \in {"404", "403"}]_vars

\* C10 witness: a request was refused as forbidden while the preview had a
\* row, a port and a running container
C10_Witness ==
  /\ response.res = "403"
  /\ \E id \in PreviewIds :
       /\ db[id].status = "live"
       /\ \E c \in containers : c.name = db[id].containerName

\* C11: a publication that fails does not change how the operation ends: no
\* request returns or throws with the error of the transport
C11_PublishFailureIsSwallowed == response.err # "emit"

(* ------------------------------------------------------------------ *)
(* findAvailablePort on a store and a host that do not change          *)
(* ------------------------------------------------------------------ *)

\* number of ports that a scanned range is drawn from
ScanSpan == 3

ScanPorts == MinPort .. (MinPort + ScanSpan - 1)

\* the rows that hold a port of the range, or none, in any status
ScanRows ==
  {NoRow} \cup
  {[NoRow EXCEPT !.exists = TRUE, !.status = st, !.port = p] :
     st \in {"building", "live", "error", "deleted"},
     p \in ScanPorts \cup {NoPort}}

\* a build of one preview is about to call findAvailablePort(minPort, maxPort)
InitScan ==
  /\ db \in [PreviewIds -> ScanRows]
  /\ osBound \in SUBSET ScanPorts
  /\ containers = {}
  /\ trees = {1}
  /\ \E id \in PreviewIds, minPort \in ScanPorts, maxPort \in ScanPorts :
       /\ minPort <= maxPort
       /\ db[id].exists /\ db[id].status = "building"
       /\ hs = [h \in Handlers |->
                  IF h = 1
                    THEN [Idle EXCEPT !.op = "sync", !.pv = id,
                                      !.port = db[id].port,
                                      !.first = minPort, !.cursor = minPort,
                                      !.last = maxPort, !.pc = "fp_db1"]
                    ELSE Idle]
  /\ response = NoResponse
  /\ wire = NoEvent
  /\ slots = 1
  /\ budget = 0

\* the scan, and what buildPreview does with its result
NextScan ==
  \E h \in Handlers :
     \/ FindPortReserved(h) \/ FindPortBind(h) \/ FindPortRecheck(h)
     \/ BuildSavePort(h) \/ BuildCatch(h)

ScanSpec == InitScan /\ [][NextScan]_vars

ScanPcs == {"fp_db1", "fp_os", "fp_db2"}

\* the ports of [lo, hi] that no preview that is not deleted holds and that
\* nothing has bound
FreePorts(lo, hi) ==
  {p \in lo..hi : ~portReservedInDB(p) /\ isPortFree(p)}

\* C12: the port that findAvailablePort returns is the smallest port of
\* [minPort, maxPort] that no preview that is not deleted holds and that is
\* not bound on the host
C12_ReturnsSmallestFreePort ==
  [][\A h \in Handlers :
       (hs[h].pc \in ScanPcs /\ hs'[h].pc = "b_saveport")
         => /\ hs'[h].port \in FreePorts(hs[h].first, hs[h].last)
            /\ \A q \in FreePorts(hs[h].first, hs[h].last) :
                 hs'[h].port <= q]_vars

\* C12 witness: the call returned the last port of a range of three after
\* it had skipped a port bound on the host and a port held by a live preview
C12_Witness ==
  \E h \in Handlers :
     /\ hs[h].pc = "b_saveport"
     /\ hs[h].first = MinPort
     /\ hs[h].port = MinPort + 2
     /\ MinPort \in osBound
     /\ \E id \in PreviewIds :
          db[id].status = "live" /\ db[id].port = MinPort + 1

\* C13: while every port of the range is held by a preview that is not
\* deleted or is bound on the host the scan writes nothing and can only end
\* by throwing "No free ports available", with no port returned; the catch
\* block then leaves the preview in error without a port
C13_ExhaustedRangeFails ==
  [][\A h \in Handlers :
       /\ (hs[h].pc \in ScanPcs /\ FreePorts(hs[h].first, hs[h].last) = {})
            => /\ db' = db
               /\ \/ hs'[h].pc \in ScanPcs
                  \/ /\ hs'[h].pc = "b_catch"
                     /\ hs'[h].err = "No free ports available"
                     /\ hs'[h].port = hs[h].port
       /\ (hs[h].pc = "b_catch" /\ hs[h].err = "No free ports available"
             /\ hs'[h].pc # "b_catch")
            => /\ db'[hs[h].pv].status = "error"
               /\ db'[hs[h].pv].port = NoPort]_vars

\* C13 witness: the build gave up with "No free ports available" where the
\* first port of the range is held by a live preview and the second is
\* bound by an unrelated process, and its preview is in error without a port
C13_Witness ==
  /\ response.err = "No free ports available"
  /\ MinPort + 1 \in osBound
  /\ MinPort + 2 \notin osBound
  /\ \E a \in PreviewIds, b \in PreviewIds :
       /\ db[a].status = "live" /\ db[a].port = MinPort
       /\ db[b].status = "error" /\ db[b].port = NoPort

(* ------------------------------------------------------------------ *)
(* Requests that are served one after another                          *)
(* ------------------------------------------------------------------ *)

\* every request arrives after the one before it has returned
InitSerial == Init /\ slots = 1

SerialSpec == InitSerial /\ [][Next]_vars

\* the preview's own row is all that keeps the port from being assigned
HeldOnlyByOwnRow(id, p) ==
  /\ db[id].port = p
  /\ isPortFree(p)
  /\ \A other \in PreviewIds \ {id} :
       ~(db[other].exists /\ db[other].port = p /\ db[other].status # "deleted")

\* C14: a preview left in error by a finished attempt holds no port that is
\* free on the host, and the scan of a later rebuild of it never skips a
\* port only because the preview's own row still holds it
C14_ErrorLeavesNoReservation ==
  [][/\ \A id \in PreviewIds :
          (db'[id].exists /\ db'[id].status = "error"
             /\ \A g \in Handlers : hs'[g].pc = "idle" \/ hs'[g].pv # id)
            => \/ db'[id].port = NoPort
               \/ db'[id].port \in osBound'
               \/ \E c \in containers' : c.port = db'[id].port
     /\ \A h \in Handlers :
          (hs[h].op = "rebuild" /\ hs[h].st0 = "error"
             /\ hs[h].pc \in ScanPcs /\ hs'[h].pc # hs[h].pc
             /\ \A g \in Handlers \ {h} : hs[g].pc = "idle" \/ hs[g].pv # hs[h].pv)
            => \/ ~HeldOnlyByOwnRow(hs[h].pv, hs[h].cursor)
               \/ hs'[h].pc \in {"fp_os", "fp_db2", "b_saveport"}]_vars

\* C14 witness: a rebuild of a preview whose earlier attempt had reserved a
\* port and ended in error has been given the first port of the range
C14_Witness ==
  \E h \in Handlers :
     /\ hs[h].op = "rebuild"
     /\ hs[h].st0 = "error"
     /\ hs[h].bn0 > DefaultBuildNumber
     /\ hs[h].pc = "b_saveport"
     /\ hs[h].port = MinPort

\* C15: a PR-open event for a preview that has no row creates the row with
\* status building and buildNumber 1, and a build of the handler that gets
\* through clone, image build and container run leaves the row live, with
\* the url of the port that the row holds and with build logs
C15_FirstBuildGoesLive ==
  [][\A h \in Handlers :
       /\ \A id \in PreviewIds :
            (SyncEvent(h, id) /\ ~db[id].exists)
              => /\ db'[id].exists
                 /\ db'[id].status = "building"
                 /\ db'[id].buildNumber = 1
       /\ (hs[h].op = "sync" /\ hs[h].pc = "b_live" /\ Returns(h))
            => /\ db'[hs[h].pv].status = "live"
               /\ db'[hs[h].pv].port # NoPort
               /\ db'[hs[h].pv].url = UrlOf(db'[hs[h].pv].port)
               /\ db'[hs[h].pv].buildLogs # NoLogs]_vars

\* C15 witness: the first event of the run was a PR-open whose build went
\* through, and the row is live on the first port of the range
C15_Witness ==
  /\ budget = MaxSerialRequests - 1
  /\ wire = "live"
  /\ response.res = "returned"
  /\ \E id \in PreviewIds :
       /\ db[id].status = "live"
       /\ db[id].url = UrlOf(MinPort)
       /\ db[id].port = MinPort
       /\ db[id].buildLogs # NoLogs

\* the rebuild of h is the second event of the run, it found the preview
\* live, and it returns because its image build failed: the preview has
\* completed one build, the successful one of the PR-open event
FailedRebuildAfterOneBuild(h) ==
  /\ hs[h].op = "rebuild"
  /\ hs[h].st0 = "live"
  /\ budget = MaxSerialRequests - 2
  /\ Returns(h)
  /\ response'.err = "docker build failed"

\* status error, no port, the failure detail at the end of the logs and no
\* container under the name of the attempt of h
FailedRebuildOutcome(h) ==
  /\ db'[hs[h].pv].status = "error"
  /\ db'[hs[h].pv].port = NoPort
  /\ \E i \in 1..Len(db'[hs[h].pv].buildLogs) :
       /\ i > 1
       /\ db'[hs[h].pv].buildLogs[i - 1] = "ERROR:"
       /\ db'[hs[h].pv].buildLogs[i] = "docker build failed"
  /\ \A c \in containers' : c.name # hs[h].name

\* C16 as stated: after one successful build a rebuild whose image build
\* fails ends with status error, buildNumber 2, no port, the failure detail
\* in the logs and no container under the attempt's name
C16_FailedRebuildLeavesBuildNumberTwo ==
  [][\A h \in Handlers :
       FailedRebuildAfterOneBuild(h)
         => (FailedRebuildOutcome(h) /\ db'[hs[h].pv].buildNumber = 2)]_vars

\* C16 amended: the same outcome, with buildNumber 3: the first build raised
\* it from 1 to 2 and the rebuild raised it once more
C16_FailedRebuildLeavesBuildNumberThree ==
  [][\A h \in Handlers :
       FailedRebuildAfterOneBuild(h)
         => /\ FailedRebuildOutcome(h)
            /\ hs[h].bn0 = 2
            /\ db'[hs[h].pv].buildNumber = 3]_vars

\* C16 witness: such a rebuild has written its error state and is about to
\* answer
C16_Witness ==
  \E h \in Handlers :
     /\ hs[h].op = "rebuild"
     /\ hs[h].st0 = "live"
     /\ budget = MaxSerialRequests - 2
     /\ hs[h].pc = "r_err_read"
     /\ hs[h].err = "docker build failed"
     /\ db[hs[h].pv].status = "error"
     /\ db[hs[h].pv].port = NoPort

\* C17: a container run that fails because its host port is in use does not
\* end the attempt: the executor allocates again and retries the run before
\* it gives up
C17_RunRetriedOnPortInUse ==
  [][\A h \in Handlers :
       (hs[h].pc = "b_run" /\ ~isPortFree(hs[h].port) /\ hs'[h].pc # "b_run")
         => hs'[h].pc # "b_catch"]_vars

\* C18: once a build request has returned, the source tree that it cloned
\* is gone
C18_TreeRemovedWhenBuildEnds ==
  \A h \in Handlers : hs[h].pc = "idle" => h \notin trees

(* ------------------------------------------------------------------ *)
(* generateContainerName on its own                                    *)
(* ------------------------------------------------------------------ *)

\* largest build number that is given to generateContainerName
MaxBuildNumber == 10

\* project rows whose ids the name cannot tell apart: the third agrees with
\* the first on the 8 characters that the name keeps, the fourth differs
\* from the first only in the case of a letter
NameProjects ==
  Projects \cup
  { [id |-> <<"c","k","A","1","x","y","z","0","z","z">>, userId |-> "u2", repo |-> "acme/docs"],
    [id |-> <<"c","k","a","1","x","y","z","0","q","r">>, userId |-> "u2", repo |-> "acme/cli"] }

NamePRNumbers == PRNumbers \cup {12}

BuildNumbers == DefaultBuildNumber .. MaxBuildNumber

\* two calls, each with arguments of its own, none of them made yet
InitName ==
  /\ db = [id \in PreviewIds |-> NoRow]
  /\ containers = {}
  /\ osBound = {}
  /\ trees = {}
  /\ hs \in [Handlers ->
               { [Idle EXCEPT !.pc = "naming", !.pv = <<p, n>>, !.bn0 = b] :
                   p \in NameProjects, n \in NamePRNumbers, b \in BuildNumbers }]
  /\ response = NoResponse
  /\ wire = NoEvent
  /\ slots = 0
  /\ budget = 0

\* const containerName = generateContainerName(project, prNumber, buildNumber)
DeriveName(h) ==
  /\ hs[h].pc = "naming"
  /\ hs' = [hs EXCEPT ![h] =
              [hs[h] EXCEPT !.pc = "named",
                            !.name = generateContainerName(Project(hs[h].pv),
                                                           PrNumber(hs[h].pv),
                                                           hs[h].bn0)]]
  /\ UNCHANGED <<db, containers, osBound, trees, response, wire, slots, budget>>

NextName == \E h \in Handlers : DeriveName(h)

NameSpec == InitName /\ [][NextName]_vars

\* both calls have returned
BothNamed == \A h \in Handlers : hs[h].pc = "named"

\* C19: two calls with the same project, PR number and build number return
\* the same name, and two calls with the same project and PR number and
\* different build numbers return different names
C19_NameDeterminedByBuildNumber ==
  BothNamed =>
    /\ (hs[1].pv = hs[2].pv /\ hs[1].bn0 = hs[2].bn0) => hs[1].name = hs[2].name
    /\ (hs[1].pv = hs[2].pv /\ hs[1].bn0 # hs[2].bn0) => hs[1].name # hs[2].name

\* the same project and PR number named for build 1 and for build 10
C19_Witness ==
  /\ BothNamed
  /\ hs[1].pv = hs[2].pv
  /\ hs[1].bn0 = 1
  /\ hs[2].bn0 = MaxBuildNumber
  /\ hs[1].name # hs[2].name

\* C20: two calls that differ in the project, the PR number or the build
\* number never return the same name
C20_DistinctTriplesDistinctNames ==
  BothNamed =>
    (hs[1].name = hs[2].name => (hs[1].pv = hs[2].pv /\ hs[1].bn0 = hs[2].bn0))

(* ------------------------------------------------------------------ *)
(* Properties of completed operations                                  *)
(* ------------------------------------------------------------------ *)

\* no request is in progress
AllIdle == \A h \in Handlers : hs[h].pc = "idle"

\* the positions from which a build attempt that has derived its name returns
AttemptEnds == {"b_live", "b_catch", "respond", "r_err_read"}

\* C21: when no request is in progress, every running container is the one
\* named by the containerName of a preview that is not deleted
C21_EveryContainerHasARecord ==
  AllIdle =>
    \A c \in containers :
       \E id \in PreviewIds : Active(id) /\ db[id].containerName = c.name

\* C22: a preview whose status is building has no url and no buildCompletedAt
C22_BuildingHasNoUrl ==
  \A id \in PreviewIds :
     (db[id].exists /\ db[id].status = "building")
        => (db[id].url = NoUrl /\ db[id].buildCompletedAt = FALSE)

\* C23: the revalidation of a recorded port keeps the port when it is free
\* on the host, and otherwise starts a scan of the range of a first-time
\* allocation, whose result is in the row before the image build starts
C23_FallbackUsesFirstTimeRange ==
  [][\A h \in Handlers :
       /\ (hs[h].pc = "b_isfree" /\ hs'[h].pc # "b_isfree")
            => IF isPortFree(hs[h].port)
                 THEN hs'[h].pc = "b_incr" /\ hs'[h].port = hs[h].port
                 ELSE hs'[h].pc = "fp_db1" /\ hs'[h].first = MinPort
       /\ (hs[h].pc = "b_incr" /\ hs'[h].pc # "b_incr")
            => db[hs[h].pv].port = hs[h].port]_vars

\* C24: when a build attempt ends, the name that it used is different from
\* the name that the next attempt of the preview derives from the row
C24_NextAttemptGetsNewName ==
  [][\A h \in Handlers :
       (hs[h].op \in {"sync", "rebuild"} /\ hs[h].pc \in AttemptEnds
          /\ Returns(h))
         => hs[h].name # generateContainerName(Project(hs[h].pv),
                                                PrNumber(hs[h].pv),
                                                db'[hs[h].pv].buildNumber)]_vars

\* C25: when a build request returns and leaves the preview in error, the
\* containerName of the row is empty
C25_ErrorClearsContainerName ==
  [][\A h \in Handlers :
       (hs[h].op \in {"sync", "rebuild"} /\ hs[h].pc \in AttemptEnds
          /\ Returns(h) /\ db'[hs[h].pv].status = "error")
         => db'[hs[h].pv].containerName = NoName]_vars

\* C26: in a build attempt the removal of stale containers comes after the
\* port is resolved and right before the image build; the container run
\* and the update to live are reached only when no step has failed; and
\* the buildLogs written with status error are the captured output
\* followed by the failure detail
C26_StepsInOrder ==
  [][\A h \in Handlers :
       /\ (hs[h].pc = "b_stale" /\ hs'[h].pc # "b_stale")
            => hs'[h].pc = "b_incr"
       /\ hs'[h].pc \in {"b_run", "b_live"} => hs'[h].err = "none"
       /\ (hs[h].pc = "b_catch" /\ hs'[h].pc # "b_catch")
            => /\ db'[hs[h].pv].status = "error"
               /\ db'[hs[h].pv].buildLogs = hs[h].logs \o <<"ERROR:", hs[h].err>>]_vars

(* ------------------------------------------------------------------ *)
(* removeContainerIfExists among the containers of several previews    *)
(* ------------------------------------------------------------------ *)

\* previews of projects whose ids the container name cannot tell apart
StaleIds == NameProjects \X PRNumbers

\* the host port of each preview's container, all different
StalePortOf ==
  CHOOSE f \in [StaleIds -> MinPort .. (MinPort + Cardinality(StaleIds) - 1)] :
     \A a \in StaleIds, b \in StaleIds : a # b => f[a] # f[b]

\* the build numbers that have gone live: the first two and the largest
StaleBuilds == {DefaultBuildNumber, DefaultBuildNumber + 1, MaxBuildNumber}

\* the row of a preview whose build number `buildNumber` went live
LiveRow(id, buildNumber) ==
  [NoRow EXCEPT !.exists = TRUE, !.status = "live",
                !.url = UrlOf(StalePortOf[id]), !.port = StalePortOf[id],
                !.containerName = generateContainerName(Project(id), PrNumber(id),
                                                        buildNumber),
                !.buildNumber = buildNumber + 1,
                !.buildLogs = <<"> docker build", "build output",
                                "> docker run", "run output">>,
                !.buildCompletedAt = TRUE]

\* some previews are live, each with its container running, and the build
\* of a PR-open or PR-sync event for one preview is about to read its row
InitStale ==
  /\ \E built \in [StaleIds -> {0} \cup StaleBuilds], id \in StaleIds :
       /\ \A a \in StaleIds, b \in StaleIds :
            (a # b /\ built[a] # 0 /\ built[b] # 0)
              => LiveRow(a, built[a]).containerName
                   # LiveRow(b, built[b]).containerName
       /\ db = [a \in StaleIds |->
                  IF built[a] = 0
                    THEN IF a = id
                           THEN [NoRow EXCEPT !.exists = TRUE,
                                              !.status = "building"]
                           ELSE NoRow
                    ELSE IF a = id
                           THEN [LiveRow(a, built[a]) EXCEPT !.status = "building"]
                           ELSE LiveRow(a, built[a])]
       /\ containers = {[name |-> LiveRow(a, built[a]).containerName,
                         port |-> StalePortOf[a]] :
                           a \in {b \in StaleIds : built[b] # 0}}
       /\ hs = [h \in Handlers |->
                  IF h = 1
                    THEN [Idle EXCEPT !.op = "sync", !.pv = id, !.pc = "b_load"]
                    ELSE Idle]
  /\ osBound = {}
  /\ trees = {1}
  /\ response = NoResponse
  /\ wire = NoEvent
  /\ slots = 1
  /\ budget = 0

\* the name is derived and the stale containers are removed
NextStale == \E h \in Handlers : BuildLoad(h) \/ BuildRemoveStale(h)

StaleSpec == InitStale /\ [][NextStale]_vars

\* C27: the stale-container removal of a build attempt removes only
\* containers whose name is the attempt's derived name, and none that the
\* row of another preview that is not deleted names
C27_StaleRemovalSparesOtherPreviews ==
  [][\A h \in Handlers :
       (hs[h].pc = "b_stale" /\ hs'[h].pc # "b_stale")
         => \A c \in containers \ containers' :
               /\ c.name = hs[h].name
               /\ ~ \E id \in StaleIds :
                      /\ id # hs[h].pv
                      /\ Active(id)
                      /\ db[id].containerName = c.name]_vars

(* ------------------------------------------------------------------ *)
(* The row of a live preview                                           *)
(* ------------------------------------------------------------------ *)

\* C28: the url of a live preview is the url of the port that its row
\* holds, a running container of its containerName is published on that
\* port, and when no request is in progress that container is running
C28_LiveUrlPortAndContainerAgree ==
  \A id \in PreviewIds :
     (db[id].exists /\ db[id].status = "live")
        => /\ db[id].port # NoPort
           /\ db[id].url = UrlOf(db[id].port)
           /\ \A c \in containers :
                c.name = db[id].containerName => c.port = db[id].port
           /\ AllIdle => \E c \in containers : c.name = db[id].containerName

\* C29: the containerName of a live preview is the name derived from the
\* build number before the one that its row holds, and when no request is
\* in progress a container of that name is running
C29_LiveNameIsPreviousBuildNumber ==
  \A id \in PreviewIds :
     (db[id].exists /\ db[id].status = "live")
        => /\ db[id].containerName =
                generateContainerName(Project(id), PrNumber(id),
                                      db[id].buildNumber - 1)
           /\ AllIdle => \E c \in containers : c.name = db[id].containerName

====
